---- MODULE Spec2Model ----
(***************************************************************************)
(* ptysd (src/ptysd.c): a server that accepts one TCP connection at a      *)
(* time, forks a session handler which allocates a pty, forks a login      *)
(* shell on the slave side and relays bytes between the peer socket and    *)
(* the pty master with two detached threads.                               *)
(*                                                                         *)
(* Processes of the model: the server, the session handler (main thread    *)
(* and relay workers 0 and 1), the shell child, and the environment (the   *)
(* network peer and the descriptors the server inherited at launch).       *)
(***************************************************************************)
EXTENDS Integers, Sequences, FiniteSets

\* ---------------------------------------------------------------- bounds
MaxConns == 2        \* connections the environment offers
MaxPeerBytes == 2    \* bytes the peer sends in one session
MaxShellBytes == 2   \* bytes the shell prints in one session
BufSize == 2         \* sizeof (buf) in ps_relay_one, scaled down from 512
MaxFd == 6           \* descriptor numbers are 0..MaxFd
MaxStack == 3        \* modules on a slave stream when it is opened
MaxRuns == 2         \* times the slave preparation is applied to one stream

FdRange == 0 .. MaxFd
Workers == {0, 1}
NoFd == -1           \* the value of a descriptor variable that holds none
Unset == 0           \* a pthread_t slot pthread_create has not stored yet
Tid(w) == w + 1      \* the thread id pthread_create stores for worker w

\* What a descriptor refers to.
Objs == {"closed", "std", "inh", "listen", "peer", "master", "slave"}

\* Descriptor sets the server can be launched with: the standard streams,
\* and the standard streams plus one more descriptor left open by the parent.
LaunchFds == { [f \in FdRange |-> IF f <= 2 THEN "std" ELSE "closed"],
               [f \in FdRange |-> IF f <= 2 THEN "std"
                                  ELSE IF f = 3 THEN "inh" ELSE "closed"] }

AllClosed == [f \in FdRange |-> "closed"]

\* The kernel hands out the lowest descriptor number that is not open.
HasFree(t) == \E f \in FdRange : t[f] = "closed"
LowestFree(t) == CHOOSE f \in FdRange :
                    /\ t[f] = "closed"
                    /\ \A g \in FdRange : g < f => t[g] # "closed"

\* close(fd): closing a number outside the table or already closed changes nothing.
CloseFd(t, fd) == IF fd \in FdRange THEN [t EXCEPT ![fd] = "closed"] ELSE t

Holds(t, obj) == \E f \in FdRange : t[f] = obj

\* The i-th byte the peer sends and the i-th byte the shell prints.
PeerByte(i) == i
ShellByte(i) == 10 + i

Min(a, b) == IF a < b THEN a ELSE b

IsPrefix(s, t) == /\ Len(s) <= Len(t)
                  /\ \A i \in 1 .. Len(s) : s[i] = t[i]

VARIABLES
    \* ---- server process (main, ps_server_init, ps_server_run)
    srvPc,            \* "init","accept","fork","wait","return","exited"
    srvFds,           \* the server's descriptor table
    ps_sockfd,        \* global: the listening descriptor
    srvPeerfd,        \* local peerfd of ps_server_run
    srvExit,          \* exit status of the server, -1 while it runs
    srvWhy,           \* why the server left its loop: "", "init", "accept", "fork"
    srvStatus,        \* exit code of the last handler reaped (-1: none yet)
    conns,            \* connections accepted so far
    unreaped,         \* handlers the server has forked and not yet reaped
    \* ---- session handler process (ps_server_connected, ps_relay)
    hPc,              \* "none","start","alloc","fork","relay","create0","create1",
                      \* "wait","zombie","reaped"
    hFds,             \* the handler's descriptor table
    hPeerfd, hMfd,    \* locals peerfd, mfd of ps_server_connected
    hStatus,          \* exit code of the handler (0 or 255), -1 while it runs
    hReaped,          \* the handler's wait(NULL) has collected the shell child
    ps_relay_fds,     \* global int ps_relay_fds[2]
    ps_relay_threads, \* global pthread_t ps_relay_threads[2]
    \* ---- relay workers (ps_relay_one), indexed by arg
    wPc,              \* "none","init","read","write","wrote0","close",
                      \* "cancel","returned","cancelled","killed"
    wSrc, wDst, wOther, \* locals sourcefd, destfd, other
    wBuf,             \* the bytes of buf still to write (buf + (nread - towrite))
    wNread,           \* last value read() returned: -1 error, 0 eof, >0 bytes
    cancelReq,        \* a cancellation request is pending for the worker
    wCalls,           \* blocking calls the worker completed after the request
    \* ---- shell child process (second fork, ps_init_slavepty, execl)
    cPc,              \* "none","setup","exec","execNoSession","shell",
                      \* "zombie","gone"
    cFds,             \* the child's descriptor table
    cStatus,          \* exit status of the child, -1 while it runs
    modules,          \* STREAMS modules pushed on the slave, bottom first
    \* ---- environment: the peer and the pty data paths
    peerState,        \* "none","open","shut" (write side closed),"reset"
    peerSent,         \* S: every byte the peer has sent, in order
    sockIn,           \* bytes sent by the peer and not yet read from the socket
    peerRecv,         \* bytes written to the peer socket, in order
    shellWrote,       \* every byte the shell wrote to the slave, in order
    ptyOut,           \* shell output not yet read from the master
    toShell,          \* bytes written to the pty master, in order
    \* ---- observation
    diag,             \* diagnostics emitted (perror/fprintf) in this session
    log               \* events of this session, for stating the claims

srvVars == <<srvPc, srvFds, ps_sockfd, srvPeerfd, srvExit, srvWhy, srvStatus,
             conns, unreaped>>
hVars == <<hPc, hFds, hPeerfd, hMfd, hStatus, hReaped, ps_relay_fds, ps_relay_threads>>
wVars == <<wPc, wSrc, wDst, wOther, wBuf, wNread, cancelReq, wCalls>>
cVars == <<cPc, cFds, cStatus, modules>>
envVars == <<peerState, peerSent, sockIn, peerRecv, shellWrote, ptyOut, toShell>>
obsVars == <<diag, log>>
vars == <<srvVars, hVars, wVars, cVars, envVars, obsVars>>

NoWorkers == [w \in Workers |-> "none"]
ZeroW == [w \in Workers |-> 0]
NoFdW == [w \in Workers |-> NoFd]

\* Everything but the module stack of the slave and the event log.
InitProcs ==
    /\ srvPc = "init" /\ srvFds \in LaunchFds /\ ps_sockfd = NoFd
    /\ srvPeerfd = NoFd /\ srvExit = -1 /\ srvWhy = "" /\ srvStatus = -1
    /\ conns = 0 /\ unreaped = 0
    /\ hPc = "none" /\ hFds = AllClosed /\ hPeerfd = NoFd /\ hMfd = NoFd
    /\ hStatus = -1 /\ hReaped = FALSE
    /\ ps_relay_fds = NoFdW /\ ps_relay_threads = [w \in Workers |-> Unset]
    /\ wPc = NoWorkers /\ wSrc = NoFdW /\ wDst = NoFdW
    /\ wOther = [w \in Workers |-> Unset]
    /\ wBuf = [w \in Workers |-> << >>] /\ wNread = ZeroW
    /\ cancelReq = [w \in Workers |-> FALSE] /\ wCalls = ZeroW
    /\ cPc = "none" /\ cFds = AllClosed /\ cStatus = -1
    /\ peerState = "none" /\ peerSent = << >> /\ sockIn = << >>
    /\ peerRecv = << >> /\ shellWrote = << >> /\ ptyOut = << >>
    /\ toShell = << >>
    /\ diag = {}

Init == InitProcs /\ modules = << >> /\ log = {}

\* ------------------------------------------------------------ observation
\* Events are triples <<what, who, detail>>.
Ev(what, who, detail) == <<what, who, detail>>

\* A process exits: the kernel closes every descriptor it holds.
ExitFds == AllClosed

\* State of a session that has not begun.  The record of the previous
\* session is dropped when the server leaves wait()'s iteration behind: when
\* it accepts the next connection or when accept fails.
FreshSession ==
    /\ hPc' = "none" /\ hFds' = AllClosed /\ hPeerfd' = NoFd /\ hMfd' = NoFd
    /\ hStatus' = -1 /\ hReaped' = FALSE
    /\ ps_relay_fds' = NoFdW /\ ps_relay_threads' = [w \in Workers |-> Unset]
    /\ wPc' = NoWorkers /\ wSrc' = NoFdW /\ wDst' = NoFdW
    /\ wOther' = [w \in Workers |-> Unset]
    /\ wBuf' = [w \in Workers |-> << >>] /\ wNread' = ZeroW
    /\ cancelReq' = [w \in Workers |-> FALSE] /\ wCalls' = ZeroW
    /\ cPc' = "none" /\ cFds' = AllClosed /\ cStatus' = -1
    /\ modules' = << >>
    /\ peerSent' = << >> /\ sockIn' = << >>
    /\ peerRecv' = << >> /\ shellWrote' = << >> /\ ptyOut' = << >>
    /\ toShell' = << >>
    /\ diag' = {} /\ log' = {}

\* ------------------------------------------------------------ the server
\* main + ps_server_init: socket, bind, listen; any failure makes main return 1.
ServerInit ==
    /\ srvPc = "init"
    /\ \E r \in {"ok", "socket", "bind", "listen"} :
        IF r = "ok"
        THEN /\ HasFree(srvFds)
             /\ ps_sockfd' = LowestFree(srvFds)
             /\ srvFds' = [srvFds EXCEPT ![LowestFree(srvFds)] = "listen"]
             /\ srvPc' = "accept"
             /\ UNCHANGED <<srvExit, srvWhy, diag>>
        ELSE /\ ps_sockfd' = IF r = "socket" THEN NoFd ELSE LowestFree(srvFds)
             /\ srvFds' = ExitFds
             /\ srvPc' = "exited" /\ srvExit' = 1 /\ srvWhy' = "init"
             /\ diag' = diag \cup {r, "failed to setup server"}
    /\ UNCHANGED <<srvPeerfd, srvStatus, conns, unreaped, hVars, wVars, cVars,
                   envVars, log>>

\* ps_server_run, line 115: accept returns a new connection.  The status of
\* the previous handler was printed at line 127 and is not read again.
Accept ==
    /\ srvPc = "accept" /\ conns < MaxConns /\ HasFree(srvFds)
    /\ srvPeerfd' = LowestFree(srvFds)
    /\ srvFds' = [srvFds EXCEPT ![LowestFree(srvFds)] = "peer"]
    /\ conns' = conns + 1
    /\ srvPc' = "fork"
    /\ peerState' = "open"
    /\ srvStatus' = -1
    /\ FreshSession
    /\ UNCHANGED <<ps_sockfd, srvExit, srvWhy, unreaped>>

\* A server that leaves the loop without closing the listening socket.
LeaveFds_KeepOpen(t, sockfd) == t

\* ps_server_run, line 138: close(ps_sockfd) after the loop.
LeaveFds(t, sockfd) == CloseFd(t, sockfd)

\* The server leaves the loop of ps_server_run: lines 135-138 (perror if
\* accept failed, close the listening socket); ps_server_run then returns.
LeaveLoop(why) ==
    /\ srvPc' = "return" /\ srvWhy' = why
    /\ srvFds' = LeaveFds(srvFds, ps_sockfd)
    /\ UNCHANGED srvExit

\* ps_server_run, line 115: accept fails.
AcceptFail ==
    /\ srvPc = "accept"
    /\ srvPeerfd' = NoFd
    /\ LeaveLoop("accept")
    /\ peerState' = "none"
    /\ FreshSession
    /\ UNCHANGED <<ps_sockfd, srvStatus, conns, unreaped>>

\* ps_server_run, lines 116-119: fork of the session handler; a failure breaks
\* out of the loop.  On success the child continues at HandlerStart and the
\* parent goes on to line 125.
ServerForkFails ==
    /\ LeaveLoop("fork")
    /\ diag' = diag \cup {"fork"}
    /\ UNCHANGED <<hPc, hFds, hPeerfd, unreaped>>

\* A parent that forgets to close its copy of the connection.
ParentFds_KeepOpen(t, peerfd) == t

\* ps_server_run, lines 121-124, in the parent: close the server's copy of
\* the connection (then printf and go on to wait).
ParentFds(t, peerfd) == CloseFd(t, peerfd)

\* A server that goes back to accept without waiting for the handler.
ParentNext_NoWait == "accept"

\* ps_server_run, lines 125-128: after the fork the parent waits for the
\* handler before it continues the loop.
ParentNext == "wait"

ServerFork ==
    /\ srvPc = "fork"
    /\ \/ /\ srvPc' = ParentNext
          /\ unreaped' = unreaped + 1
          /\ hPc' = "start" /\ hFds' = srvFds /\ hPeerfd' = srvPeerfd
          /\ srvFds' = ParentFds(srvFds, srvPeerfd)
          /\ UNCHANGED <<srvExit, srvWhy, diag>>
       \/ ServerForkFails
    /\ UNCHANGED <<ps_sockfd, srvPeerfd, srvStatus, conns, hMfd, hStatus, hReaped,
                   ps_relay_fds, ps_relay_threads, wVars, cVars, envVars, log>>

\* main, line 61: ps_server_run has returned; return 0 ends the process.
ServerReturn ==
    /\ srvPc = "return"
    /\ srvPc' = "exited" /\ srvExit' = 0
    /\ srvFds' = ExitFds
    /\ UNCHANGED <<ps_sockfd, srvPeerfd, srvWhy, srvStatus, conns, unreaped,
                   hVars, wVars, cVars, envVars, obsVars>>

\* ps_server_run, lines 125-128: wait() reaps the handler, then continue.
\* A server that gives up when a session reports a failure.
AfterWait_ExitOnFailure(status) == IF status # 0 THEN "exited" ELSE "accept"

\* A server that never leaves wait().
AfterWait_Stuck(status) == "wait"

\* Where ps_server_run goes after wait() returned the handler's status:
\* `continue`, whatever the status.
AfterWait(status) == "accept"

ServerWait ==
    /\ srvPc = "wait" /\ hPc = "zombie"
    /\ srvStatus' = hStatus
    /\ unreaped' = unreaped - 1
    /\ hPc' = "reaped"
    /\ srvPc' = AfterWait(hStatus)
    /\ UNCHANGED <<srvFds, ps_sockfd, srvPeerfd, srvExit, srvWhy, conns,
                   hFds, hPeerfd, hMfd, hStatus, hReaped, ps_relay_fds,
                   ps_relay_threads, wVars, cVars, envVars, obsVars>>

\* ------------------------------------------------- the session handler
\* Threads of a process that exits stop where they are.
KillWorkers == [w \in Workers |->
                  IF wPc[w] \in {"init", "read", "write", "wrote0", "close", "cancel"}
                  THEN "killed" ELSE wPc[w]]

\* exit(ps_server_connected(peerfd)), line 132: the handler process ends with
\* the given exit code; its descriptors are closed, its threads stop with
\* their locals, and what was queued on its descriptors is discarded.
HandlerExit(code) ==
    /\ hPc' = "zombie" /\ hStatus' = code
    /\ hFds' = ExitFds
    /\ wPc' = KillWorkers
    /\ wSrc' = NoFdW /\ wDst' = NoFdW /\ wOther' = [w \in Workers |-> Unset]
    /\ wBuf' = [w \in Workers |-> << >>] /\ wNread' = ZeroW
    /\ cancelReq' = [w \in Workers |-> FALSE] /\ wCalls' = ZeroW
    /\ sockIn' = << >> /\ ptyOut' = << >>

\* What HandlerExit changes besides the handler's own state, left alone by
\* a step in which the handler goes on.
HandlerStays == UNCHANGED <<wSrc, wDst, wOther, wBuf, wNread, cancelReq, wCalls,
                            sockIn, ptyOut>>

\* return (-1) of ps_server_connected, seen by the parent as exit code 255.
FailCode == 255

\* ps_server_run, line 131: the forked handler closes the listening socket.
HandlerStart ==
    /\ hPc = "start"
    /\ hFds' = CloseFd(hFds, ps_sockfd)
    /\ hPc' = "alloc"
    /\ UNCHANGED <<srvVars, hPeerfd, hMfd, hStatus, hReaped, ps_relay_fds,
                   ps_relay_threads, wVars, cVars, envVars, obsVars>>

\* ps_server_connected, lines 155, 160, 165: perror names the call that failed.
AllocDiag(r) == diag' = diag \cup {r}

\* ps_server_connected, lines 154-167: posix_openpt, grantpt, unlockpt.
PtyAllocate ==
    /\ hPc = "alloc"
    /\ \E r \in {"ok", "posix_openpt", "grantpt", "unlockpt"} :
        IF r = "ok"
        THEN /\ HasFree(hFds)
             /\ hMfd' = LowestFree(hFds)
             /\ hFds' = [hFds EXCEPT ![LowestFree(hFds)] = "master"]
             /\ hPc' = "fork"
             /\ HandlerStays
             /\ UNCHANGED <<hStatus, wPc, diag, log>>
        ELSE /\ hMfd' = IF r = "posix_openpt" THEN NoFd ELSE LowestFree(hFds)
             /\ AllocDiag(r)
             /\ log' = log \cup {Ev("alloc", 0, r)}
             /\ HandlerExit(FailCode)
    /\ UNCHANGED <<srvVars, hPeerfd, hReaped, ps_relay_fds, ps_relay_threads,
                   cVars, peerState, peerSent, peerRecv, shellWrote, toShell>>

\* ps_server_connected, lines 169-172: fork of the shell child.
HandlerFork ==
    /\ hPc = "fork"
    /\ \/ /\ hPc' = "relay"
          /\ cPc' = "setup" /\ cFds' = hFds
          /\ log' = log \cup {Ev("fork", 0, "shell")}
          /\ HandlerStays
          /\ UNCHANGED <<hFds, hStatus, wPc, diag>>
       \/ /\ diag' = diag \cup {"child: fork"}
          /\ HandlerExit(FailCode)
          /\ UNCHANGED <<cPc, cFds, log>>
    /\ UNCHANGED <<srvVars, hPeerfd, hMfd, hReaped, ps_relay_fds, ps_relay_threads,
                   cStatus, modules, peerState, peerSent, peerRecv, shellWrote, toShell>>

\* ps_relay, lines 262-263: publish the two descriptors.
RelayFds(peerfd, mfd) == [w \in Workers |-> IF w = 0 THEN peerfd ELSE mfd]

RelayInit ==
    /\ hPc = "relay"
    /\ ps_relay_fds' = RelayFds(hPeerfd, hMfd)
    /\ hPc' = "create0"
    /\ UNCHANGED <<srvVars, hFds, hPeerfd, hMfd, hStatus, hReaped,
                   ps_relay_threads, wVars, cVars, envVars, obsVars>>

\* pthread_create(&ps_relay_threads[w], NULL, ps_relay_one, w): on success the
\* thread id is stored and the thread starts; on failure ps_relay returns -1
\* and ps_server_connected returns -1 (line 176) without waiting.
CreateWorker(w, next) ==
    \/ /\ ps_relay_threads' = [ps_relay_threads EXCEPT ![w] = Tid(w)]
       /\ wPc' = [wPc EXCEPT ![w] = "init"]
       /\ hPc' = next
       /\ log' = log \cup {Ev("create", w, "ok")}
       /\ HandlerStays
       /\ UNCHANGED <<hFds, hStatus, diag>>
    \/ /\ diag' = diag \cup {"child: pthread_create"}
       /\ log' = log \cup {Ev("create", w, "failed")}
       /\ HandlerExit(FailCode)
       /\ UNCHANGED ps_relay_threads

\* ps_relay, lines 265-268.
Create0 ==
    /\ hPc = "create0"
    /\ CreateWorker(0, "create1")
    /\ UNCHANGED <<srvVars, hPeerfd, hMfd, hReaped, ps_relay_fds,
                   cVars, peerState, peerSent, peerRecv, shellWrote, toShell>>

\* ps_relay, lines 270-279: on success both threads are detached and ps_relay
\* returns 0, so the handler goes on to wait(NULL).
Create1 ==
    /\ hPc = "create1"
    /\ CreateWorker(1, "wait")
    /\ UNCHANGED <<srvVars, hPeerfd, hMfd, hReaped, ps_relay_fds,
                   cVars, peerState, peerSent, peerRecv, shellWrote, toShell>>

\* ps_server_connected, lines 178-179: wait(NULL) returns once the shell child
\* has terminated; the handler returns 0 and exits.
HandlerWait ==
    /\ hPc = "wait" /\ cPc = "zombie"
    /\ cPc' = "gone" /\ hReaped' = TRUE
    /\ HandlerExit(0)
    /\ UNCHANGED <<srvVars, hPeerfd, hMfd, ps_relay_fds, ps_relay_threads,
                   cFds, cStatus, modules, peerState, peerSent, peerRecv, shellWrote, toShell, obsVars>>

\* ----------------------------------------------------- the relay workers
Live == {"init", "read", "write", "wrote0", "close", "cancel"}

\* What descriptor fd of the handler refers to.
HObj(fd) == IF fd \in FdRange THEN hFds[fd] ELSE "closed"

\* The shell child still exists and holds (or is about to open) the slave.
SlaveLive == cPc \in {"setup", "exec", "execNoSession", "shell"}

\* ps_relay_one, lines 290-291: the index of the opposite direction is
\* computed from the source descriptor's number.
OtherIndex(sourcefd) == (sourcefd + 1) % 2

\* ps_relay_one, lines 289-291.
WInit(w) ==
    /\ wPc[w] = "init"
    /\ wSrc' = [wSrc EXCEPT ![w] = ps_relay_fds[w]]
    /\ wDst' = [wDst EXCEPT ![w] = ps_relay_fds[OtherIndex(ps_relay_fds[w])]]
    /\ wOther' = [wOther EXCEPT ![w] = ps_relay_threads[OtherIndex(ps_relay_fds[w])]]
    /\ wPc' = [wPc EXCEPT ![w] = "read"]
    /\ log' = log \cup {Ev("init", w, IF \A v \in Workers : ps_relay_threads[v] # Unset
                                     THEN "threads stored" ELSE "threads unset")}
    /\ UNCHANGED <<srvVars, hVars, wBuf, wNread, cancelReq, wCalls, cVars,
                   envVars, diag>>

\* Deferred cancellation: a pending request is acted upon at a cancellation
\* point (read, write, close); the call the thread was in when the request
\* arrived may still complete.
CanCall(w) == ~cancelReq[w] \/ wCalls[w] = 0
Called(w) == IF cancelReq[w] THEN [wCalls EXCEPT ![w] = 1] ELSE wCalls

\* The bytes a read on the handler's descriptor fd can return now.
Avail(fd) == IF HObj(fd) = "peer" THEN sockIn
             ELSE IF HObj(fd) = "master" THEN ptyOut ELSE << >>

ReadFails(fd) == \/ HObj(fd) = "closed"
                 \/ HObj(fd) = "peer" /\ peerState = "reset"

ReadEof(fd) == /\ ~ReadFails(fd) /\ Avail(fd) = << >>
               /\ \/ HObj(fd) = "peer" /\ peerState = "shut"
                  \/ HObj(fd) = "master" /\ ~SlaveLive

Take(fd, n) ==
    /\ sockIn' = IF HObj(fd) = "peer" THEN SubSeq(sockIn, n + 1, Len(sockIn)) ELSE sockIn
    /\ ptyOut' = IF HObj(fd) = "master" THEN SubSeq(ptyOut, n + 1, Len(ptyOut)) ELSE ptyOut

\* The event of a call on a descriptor number that is no longer open in the
\* process (the call fails with EBADF).
BadFd(w, call, fd) == IF HObj(fd) = "closed" THEN {Ev("closed fd", w, call)} ELSE {}

\* ps_relay_one, line 293 (and 317-318 when the read fails).
WRead(w) ==
    /\ wPc[w] = "read" /\ CanCall(w)
    /\ wCalls' = Called(w)
    /\ \/ /\ ReadFails(wSrc[w])
          /\ wNread' = [wNread EXCEPT ![w] = -1]
          /\ wPc' = [wPc EXCEPT ![w] = "cancel"]
          /\ diag' = diag \cup {"child: read"}
          /\ log' = log \cup {Ev("read", w, "error")} \cup BadFd(w, "read", wSrc[w])
          /\ UNCHANGED <<wBuf, sockIn, ptyOut>>
       \/ /\ ReadEof(wSrc[w])
          /\ wNread' = [wNread EXCEPT ![w] = 0]
          /\ wPc' = [wPc EXCEPT ![w] = "close"]
          /\ log' = log \cup {Ev("read", w, "eof")}
          /\ UNCHANGED <<wBuf, sockIn, ptyOut, diag>>
       \/ /\ ~ReadFails(wSrc[w])
          /\ \E n \in 1 .. Min(BufSize, Len(Avail(wSrc[w]))) :
               /\ wNread' = [wNread EXCEPT ![w] = n]
               /\ wBuf' = [wBuf EXCEPT ![w] = SubSeq(Avail(wSrc[w]), 1, n)]
               /\ Take(wSrc[w], n)
          /\ wPc' = [wPc EXCEPT ![w] = "write"]
          /\ UNCHANGED <<diag, log>>
    /\ UNCHANGED <<srvVars, hVars, wSrc, wDst, wOther, cancelReq, cVars,
                   peerState, peerSent, peerRecv, shellWrote, toShell>>

WriteFails(fd) == \/ HObj(fd) \notin {"peer", "master"}
                  \/ HObj(fd) = "peer" /\ peerState = "reset"
                  \/ HObj(fd) = "master" /\ ~SlaveLive

Put(fd, bytes) ==
    /\ peerRecv' = IF HObj(fd) = "peer" THEN peerRecv \o bytes ELSE peerRecv
    /\ toShell' = IF HObj(fd) = "master" THEN toShell \o bytes ELSE toShell

\* Where the worker is after write() returned k of the n bytes left, lines
\* 303-314: nothing is tested but nwritten < 0 and towrite > 0, so after a
\* return of 0 the loop calls write again with the same bytes.
AfterWrite(k, n) == IF k = n THEN "read" ELSE IF k = 0 THEN "wrote0" ELSE "write"

\* ps_relay_one, lines 301-312: one write call of the inner loop; a short
\* write leaves the rest of the chunk for the next call, and write may return
\* 0 without having written anything.
WWrite(w) ==
    /\ wPc[w] = "write" /\ CanCall(w)
    /\ wCalls' = Called(w)
    /\ \/ /\ WriteFails(wDst[w])
          /\ wPc' = [wPc EXCEPT ![w] = "cancel"]
          /\ diag' = diag \cup {"child: write"}
          /\ log' = log \cup {Ev("write", w, "error")} \cup BadFd(w, "write", wDst[w])
          /\ UNCHANGED <<wBuf, peerRecv, toShell>>
       \/ /\ ~WriteFails(wDst[w])
          /\ \E k \in 0 .. Len(wBuf[w]) :
               /\ Put(wDst[w], SubSeq(wBuf[w], 1, k))
               /\ wBuf' = [wBuf EXCEPT ![w] = SubSeq(wBuf[w], k + 1, Len(wBuf[w]))]
               /\ wPc' = [wPc EXCEPT ![w] = AfterWrite(k, Len(wBuf[w]))]
          /\ UNCHANGED <<diag, log>>
    /\ UNCHANGED <<srvVars, hVars, wSrc, wDst, wOther, wNread, cancelReq, cVars,
                   peerState, peerSent, sockIn, shellWrote, ptyOut>>

\* ps_relay_one, lines 307 and 299 after write returned 0: towrite -= 0, the
\* test towrite > 0 still holds, the loop goes round.
WRetry(w) ==
    /\ wPc[w] = "wrote0"
    /\ wPc' = [wPc EXCEPT ![w] = "write"]
    /\ UNCHANGED <<srvVars, hVars, wSrc, wDst, wOther, wBuf, wNread, cancelReq,
                   wCalls, cVars, envVars, obsVars>>

\* ps_relay_one, lines 294-296: end of stream, close the destination.
WClose(w) ==
    /\ wPc[w] = "close" /\ CanCall(w)
    /\ wCalls' = Called(w)
    /\ hFds' = CloseFd(hFds, wDst[w])
    /\ wPc' = [wPc EXCEPT ![w] = "cancel"]
    /\ log' = log \cup {Ev("close", w, HObj(wDst[w]))} \cup BadFd(w, "close", wDst[w])
    /\ UNCHANGED <<srvVars, hPc, hPeerfd, hMfd, hStatus, hReaped, ps_relay_fds,
                   ps_relay_threads, wSrc, wDst, wOther, wBuf, wNread, cancelReq,
                   cVars, envVars, diag>>

\* Whom pthread_cancel(other) of worker w reaches.
CancelKind(w) ==
    IF wOther[w] = Unset THEN "unset"
    ELSE IF wOther[w] = Tid(w) THEN "self"
    ELSE IF \E t \in Workers : Tid(t) = wOther[w] /\ wPc[t] \in Live THEN "other"
    ELSE "dead"

\* ps_relay_one, lines 320-321: cancel the other thread and return.  A handle
\* that names no running thread reaches nobody.
WCancel(w) ==
    /\ wPc[w] = "cancel"
    /\ cancelReq' = [t \in Workers |->
                        IF Tid(t) = wOther[w] /\ wPc[t] \in Live
                        THEN TRUE ELSE cancelReq[t]]
    /\ wPc' = [wPc EXCEPT ![w] = "returned"]
    /\ log' = log \cup {Ev("cancel", w, CancelKind(w))}
    /\ UNCHANGED <<srvVars, hVars, wSrc, wDst, wOther, wBuf, wNread, wCalls,
                   cVars, envVars, diag>>

\* The thread acts on a pending cancellation request at a cancellation point.
WCancelled(w) ==
    /\ cancelReq[w] /\ wPc[w] \in {"read", "write", "close"}
    /\ wPc' = [wPc EXCEPT ![w] = "cancelled"]
    /\ UNCHANGED <<srvVars, hVars, wSrc, wDst, wOther, wBuf, wNread, cancelReq,
                   wCalls, cVars, envVars, obsVars>>

\* ------------------------------------------------------- the shell child
STDIN_FILENO == 0
STDOUT_FILENO == 1
STDERR_FILENO == 2

\* The line-discipline modules ps_init_slavepty pushes, in the order pushed.
LdModules == <<"ptem", "ldterm", "ttcompat">>

\* The module stacks a slave can have right after open(): none, or the
\* terminal modules already pushed by the system's autopush configuration.
OpenStacks == { << >>, LdModules }

\* The steps of ps_init_slavepty that can fail, in program order.
SlaveSteps == <<"ptsname", "open", "I_FIND", "ptem", "ldterm", "ttcompat",
                "dup2_0", "dup2_1", "dup2_2">>
StepNo(step) == IF step = "none" THEN Len(SlaveSteps) + 1
                ELSE CHOOSE i \in 1 .. Len(SlaveSteps) : SlaveSteps[i] = step

Range(seq) == {seq[i] : i \in 1 .. Len(seq)}

\* dup2(old, new) on descriptor table t.
Dup2(t, old, new) == [t EXCEPT ![new] = t[old]]

\* A child that leaves the descriptors above stderr open.
CloseFrom_Skipped(t, low) == t

\* closefrom(low): close every descriptor numbered low or above.
CloseFrom(t, low) == [f \in FdRange |-> IF f >= low THEN "closed" ELSE t[f]]

\* An I_FIND that never finds the module.
IFind_NeverFound(stack, name) == 0

\* ioctl(sfd, I_FIND, "ldterm"): 1 when the module is on the stream.
IFind(stack, name) == IF name \in Range(stack) THEN 1 ELSE 0

\* ps_init_slavepty(mfd), lines 207-249, in a process with descriptor table t,
\* where the slave has module stack `stack` when opened and step `fail` (or
\* "none") is the first to fail.  Gives the return value, the descriptor
\* table and the module stack the function leaves behind.
PsInitSlavepty(t, mfd, stack, fail) ==
    LET n == StepNo(fail)
        t1 == CloseFd(t, mfd)
        sfd == LowestFree(t1)
        t2 == [t1 EXCEPT ![sfd] = "slave"]
        setup == IFind(stack, "ldterm")
        pushed == IF setup # 0 THEN 0
                  ELSE IF n > StepNo("ttcompat") THEN 3
                  ELSE IF n > StepNo("ptem") THEN n - StepNo("ptem")
                  ELSE 0
        t3 == IF n > StepNo("dup2_0") THEN Dup2(t2, sfd, STDIN_FILENO) ELSE t2
        t4 == IF n > StepNo("dup2_1") THEN Dup2(t3, sfd, STDOUT_FILENO) ELSE t3
        t5 == IF n > StepNo("dup2_2") THEN Dup2(t4, sfd, STDERR_FILENO) ELSE t4
        t6 == CloseFrom(t5, STDERR_FILENO + 1)
    IN  [ ret |-> IF fail = "none" THEN 0 ELSE -1,
          fds |-> IF n = StepNo("ptsname") THEN t
                  ELSE IF n = StepNo("open") THEN t1
                  ELSE IF fail = "none" THEN t6 ELSE t5,
          modules |-> IF n <= StepNo("open") THEN << >>
                      ELSE stack \o SubSeq(LdModules, 1, pushed) ]

\* A step can only fail if the function executes it: the pushes are skipped
\* when ldterm is found.
CanFail(stack, fail) ==
    fail \in {"ptem", "ldterm", "ttcompat"} => IFind(stack, "ldterm") = 0

\* A child of the handler that exits stays a zombie until the handler waits
\* for it; if the handler is gone already, init reaps it.
Exited == IF hPc \in {"zombie", "reaped"} THEN "gone" ELSE "zombie"

\* ps_server_connected, line 184: `(void) setsid();` -- the result is not
\* looked at, so a failure leaves no diagnostic and changes nothing in what
\* the child does next: with ps_init_slavepty done it stands before chdir and
\* execl, in a new session or, if setsid failed, still in the handler's.
Setsid(ok) == IF ok THEN "exec" ELSE "execNoSession"

\* ps_server_connected, lines 182-187, in the child: close the peer socket,
\* setsid, ps_init_slavepty; exit(1) if that fails.
ChildSetup ==
    /\ cPc = "setup"
    /\ \E sidOk \in BOOLEAN, stack \in OpenStacks,
          fail \in Range(SlaveSteps) \cup {"none"} :
        /\ CanFail(stack, fail)
        /\ HasFree(CloseFd(CloseFd(cFds, hPeerfd), hMfd))
        /\ LET r == PsInitSlavepty(CloseFd(cFds, hPeerfd), hMfd, stack, fail)
           IN  /\ modules' = r.modules
               /\ IF r.ret # 0
                  THEN /\ cPc' = Exited /\ cStatus' = 1 /\ cFds' = ExitFds
                       /\ diag' = diag \cup {fail}
                  ELSE /\ cPc' = Setsid(sidOk) /\ cFds' = r.fds
                       /\ UNCHANGED <<cStatus, diag>>
    /\ UNCHANGED <<srvVars, hVars, wVars, envVars, log>>

\* ps_server_connected, lines 189-194, in the child: chdir (a failure only
\* warns), then execl; exit(1) if execl returns.
ChildExec ==
    /\ cPc \in {"exec", "execNoSession"}
    /\ \E chdirOk \in BOOLEAN :
        \/ /\ cPc' = "shell"
           /\ log' = log \cup {Ev("exec", 0, "shell")}
           /\ diag' = IF chdirOk THEN diag ELSE diag \cup {"child: WARN: chdir"}
           /\ UNCHANGED <<cFds, cStatus>>
        \/ /\ cPc' = Exited /\ cStatus' = 1 /\ cFds' = ExitFds
           /\ diag' = (IF chdirOk THEN diag ELSE diag \cup {"child: WARN: chdir"})
                         \cup {"child's child: exec"}
           /\ UNCHANGED log
    /\ UNCHANGED <<srvVars, hVars, wVars, modules, envVars>>

\* The running shell prints a byte on its terminal.
ShellWrite ==
    /\ cPc = "shell" /\ Holds(hFds, "master")
    /\ Len(shellWrote) < MaxShellBytes
    /\ shellWrote' = Append(shellWrote, ShellByte(Len(shellWrote) + 1))
    /\ ptyOut' = Append(ptyOut, ShellByte(Len(shellWrote) + 1))
    /\ UNCHANGED <<srvVars, hVars, wVars, cVars, peerState, peerSent, sockIn,
                   peerRecv, toShell, obsVars>>

\* The shell exits: of its own accord, or because the master side is gone.
ShellExit ==
    /\ cPc = "shell"
    /\ cPc' = Exited /\ cStatus' = 0 /\ cFds' = ExitFds
    /\ UNCHANGED <<srvVars, hVars, wVars, modules, envVars, obsVars>>

\* The master has been closed by every process: the shell is hung up.
ShellHangup == ~Holds(hFds, "master") /\ ShellExit

\* ------------------------------------------------------------- the peer
Connected == peerState \in {"open", "shut"} /\ (Holds(hFds, "peer") \/ Holds(srvFds, "peer"))

PeerSend ==
    /\ peerState = "open" /\ Connected
    /\ Len(peerSent) < MaxPeerBytes
    /\ peerSent' = Append(peerSent, PeerByte(Len(peerSent) + 1))
    /\ sockIn' = Append(sockIn, PeerByte(Len(peerSent) + 1))
    /\ UNCHANGED <<srvVars, hVars, wVars, cVars, peerState, peerRecv,
                   shellWrote, ptyOut, toShell, obsVars>>

\* The peer closes its write side: reads drain what was sent, then return 0.
PeerShutdown ==
    /\ peerState = "open" /\ Connected
    /\ peerState' = "shut"
    /\ UNCHANGED <<srvVars, hVars, wVars, cVars, peerSent, sockIn, peerRecv,
                   shellWrote, ptyOut, toShell, obsVars>>

\* The connection is reset: reads and writes on the socket fail from now on.
PeerReset ==
    /\ Connected
    /\ peerState' = "reset"
    /\ UNCHANGED <<srvVars, hVars, wVars, cVars, peerSent, sockIn, peerRecv,
                   shellWrote, ptyOut, toShell, obsVars>>

\* ------------------------------------- the slave preparation on its own
\* ps_init_slavepty's line-discipline setup as a function of the module stack
\* it finds: the stacks a stream can be opened with, and the preparation
\* applied to the same stream up to MaxRuns times.
ModNames == Range(LdModules) \cup {"other"}
Stacks == UNION { [1 .. k -> ModNames] : k \in 0 .. MaxStack }

\* The descriptors of the shell child when it calls ps_init_slavepty after a
\* launch with the standard streams only: 0-2 inherited, the pty master next.
LdFds == [f \in FdRange |-> IF f <= STDERR_FILENO THEN "std"
                            ELSE IF f = STDERR_FILENO + 1 THEN "master"
                            ELSE "closed"]
LdMfd == CHOOSE f \in FdRange : LdFds[f] = "master"

LdRuns == Cardinality({e \in log : e[1] = "prepared"})

LdInit == /\ InitProcs
          /\ modules \in Stacks
          /\ log = {Ev("opened", 0, modules)}

\* ps_init_slavepty, lines 219-239, with every call succeeding.
LdPrepare ==
    /\ LdRuns < MaxRuns
    /\ modules' = PsInitSlavepty(LdFds, LdMfd, modules, "none").modules
    /\ log' = log \cup {Ev("prepared", LdRuns + 1, modules')}
    /\ UNCHANGED <<srvVars, hVars, wVars, cPc, cFds, cStatus, envVars, diag>>

LdNext == LdPrepare

LdSpec == LdInit /\ [][LdNext]_vars

\* ------------------------------------------------------- specifications
Next ==
    \/ ServerInit \/ Accept \/ AcceptFail \/ ServerFork \/ ServerWait
    \/ ServerReturn
    \/ HandlerStart \/ PtyAllocate \/ HandlerFork \/ RelayInit \/ Create0
    \/ Create1 \/ HandlerWait
    \/ \E w \in Workers : WInit(w) \/ WRead(w) \/ WWrite(w) \/ WRetry(w)
                             \/ WClose(w) \/ WCancel(w) \/ WCancelled(w)
    \/ ChildSetup \/ ChildExec \/ ShellWrite \/ ShellExit
    \/ PeerSend \/ PeerShutdown \/ PeerReset

Spec == Init /\ [][Next]_vars

\* The steps the program takes by itself: every process and thread that can
\* run is eventually scheduled, and a shell whose terminal is gone exits.
\* What the environment does (a peer connecting, sending, closing; accept
\* failing; the shell printing or deciding to exit) is not forced.
Fairness ==
    /\ WF_vars(ServerInit) /\ WF_vars(ServerFork) /\ WF_vars(ServerWait)
    /\ WF_vars(ServerReturn)
    /\ WF_vars(HandlerStart) /\ WF_vars(PtyAllocate) /\ WF_vars(HandlerFork)
    /\ WF_vars(RelayInit) /\ WF_vars(Create0) /\ WF_vars(Create1)
    /\ WF_vars(HandlerWait)
    /\ \A w \in Workers :
          /\ WF_vars(WInit(w)) /\ WF_vars(WRead(w)) /\ WF_vars(WWrite(w))
          /\ WF_vars(WRetry(w))
          /\ WF_vars(WClose(w)) /\ WF_vars(WCancel(w)) /\ WF_vars(WCancelled(w))
    /\ WF_vars(ChildSetup) /\ WF_vars(ChildExec) /\ WF_vars(ShellHangup)

FairSpec == Spec /\ Fairness

\* ================================================================ claims
\* The descriptor numbers for which lines 290-291 pick the opposite slot:
\* peerfd even and mfd odd, as when only 0, 1, 2 were open at launch.
StdWiring == OtherIndex(hPeerfd) = 1 /\ OtherIndex(hMfd) = 0

Stopped(w) == wPc[w] \in {"returned", "cancelled", "killed"}

\* C1: the server is at accept (or anywhere outside wait) only when every
\* handler it forked has been reaped, and it never has more than one
\* unreaped handler.
C1_Serialized ==
    /\ unreaped <= 1
    /\ srvPc \in {"accept", "fork"} => unreaped = 0
    /\ unreaped = 1 => srvPc = "wait"

C1_Witness == conns = 2 /\ srvPc = "wait" /\ unreaped = 1

\* C2: when the session's descriptors are closed (the handler has exited),
\* the peer has received exactly what the shell wrote.  Stated for the
\* most favourable case: both workers were started, the descriptors are the
\* standard ones and the peer neither closed nor reset the connection.
C2_ShellToPeer ==
    ( /\ StdWiring /\ hPc \in {"zombie", "reaped"}
      /\ Ev("create", 1, "ok") \in log /\ peerState = "open" )
    => peerRecv = shellWrote

\* C3: what has been written to the pty master is always a prefix of S, and
\* once the peer-to-pty worker has seen end-of-stream and closed its
\* destination, the pty master has received exactly S.
C3_PeerToShell ==
    /\ IsPrefix(toShell, peerSent)
    /\ (\E o \in Objs : Ev("close", 0, o) \in log) => toShell = peerSent

\* C4: the handler is never blocked in wait(NULL) with the pty master open,
\* both workers stopped and the shell still running after a read error on
\* the peer socket.
C4_NoStuckWait ==
    ~( /\ StdWiring /\ hPc = "wait" /\ peerState = "reset"
       /\ Ev("read", 0, "error") \in log
       /\ cPc = "shell" /\ Holds(hFds, "master")
       /\ \A w \in Workers : Stopped(w) )

\* C5: once the pty-to-peer worker has read end-of-stream from the master
\* (the shell has exited), eventually both workers have stopped, the handler
\* has reaped the shell, the server has reaped the handler and the server is
\* at accept.
ShellEof == srvPc = "wait" /\ Ev("read", 1, "eof") \in log
TornDown == /\ \A w \in Workers : Stopped(w)
            /\ hReaped /\ cPc = "gone"
            /\ hPc = "reaped" /\ unreaped = 0
            /\ srvPc = "accept"
C5_ShellExitTeardown == ShellEof ~> TornDown

C5_Witness == ShellEof /\ wPc[0] = "read" /\ hPc = "wait"

\* C6: when the peer-to-pty worker has returned after a zero-length read, it
\* has closed the pty master and the pty-to-peer worker, if still running,
\* has a cancellation request pending.
C6_PeerClosesFirst ==
    (StdWiring /\ Ev("read", 0, "eof") \in log /\ wPc[0] = "returned")
    => /\ Ev("close", 0, "master") \in log
       /\ wPc[1] \in Live \cup {"none"} => cancelReq[1]

AllocCalls == {"posix_openpt", "grantpt", "unlockpt"}
AllocFailed == \E r \in AllocCalls : Ev("alloc", 0, r) \in log
C8_AllocFailure ==
    AllocFailed =>
        /\ diag \cap AllocCalls # {}
        /\ cPc = "none" /\ \A w \in Workers : wPc[w] = "none"
        /\ ~Holds(srvFds, "peer") /\ ~Holds(hFds, "peer") /\ ~Holds(cFds, "peer")
        /\ hStatus = FailCode
        /\ \/ srvPc = "wait" /\ hPc = "zombie"
           \/ srvPc = "accept" /\ hPc = "reaped"

C8_Witness == AllocFailed /\ srvPc = "accept" /\ hPc = "reaped" /\ conns < MaxConns

\* C9: every worker executes its first statements (lines 289-291) with both
\* thread handles already stored by pthread_create.
C9_WrittenBeforeStart ==
    \A w \in Workers : Ev("init", w, "threads unset") \notin log

\* C10: a process running the shell image has descriptors 0, 1 and 2 open on
\* the pty slave and nothing else.
C10_ShellDescriptors ==
    cPc = "shell" =>
        \A f \in FdRange : cFds[f] = IF f <= STDERR_FILENO THEN "slave" ELSE "closed"

C10_Witness == cPc = "shell" /\ hFds[3] = "inh" /\ Holds(hFds, "master")

LdOpened == CHOOSE st \in Stacks : Ev("opened", 0, st) \in log
C12_LdSetupIdempotent ==
    \A e \in log :
        e[1] = "prepared" =>
            /\ e[3] = IF "ldterm" \in Range(LdOpened) THEN LdOpened
                      ELSE LdOpened \o <<"ptem", "ldterm", "ttcompat">>
            /\ e[2] = LdRuns => modules = e[3]

C12_Witness ==
    /\ LdRuns = MaxRuns /\ LdOpened # << >> /\ "ldterm" \notin Range(LdOpened)
    /\ Len(modules) = Len(LdOpened) + 3

\* C13: a worker that has executed lines 289-291 reads from the descriptor of
\* its own direction and writes to the descriptor of the opposite one
\* (worker 0: peerfd to mfd, worker 1: mfd to peerfd), never to its own
\* source, and, when both handles were stored before it started, its
\* cancellation target is the opposite worker and never itself.
C13_DirectionWiring ==
    \A w \in Workers :
        wPc[w] \in Live \ {"init"} =>
            /\ wSrc[w] = RelayFds(hPeerfd, hMfd)[w]
            /\ wDst[w] = RelayFds(hPeerfd, hMfd)[1 - w]
            /\ wDst[w] # wSrc[w]
            /\ Ev("init", w, "threads stored") \in log =>
                  wOther[w] = Tid(1 - w) /\ wOther[w] # Tid(w)

\* C14: a worker that has seen a zero-length read, a read error or a write
\* error is no longer in its read or write loop, and a worker that has
\* returned has issued its one pthread_cancel on the handle of the opposing
\* worker (running or already finished).
Ending(w) == \/ Ev("read", w, "eof") \in log \/ Ev("read", w, "error") \in log
             \/ Ev("write", w, "error") \in log
C14_TerminationCancels ==
    \A w \in Workers :
        /\ Ending(w) => wPc[w] \notin {"init", "read", "write"}
        /\ wPc[w] = "returned" =>
              /\ Ending(w)
              /\ \E k \in {"other", "dead"} : Ev("cancel", w, k) \in log

\* C15: a handler that forked the shell child and has exited has reaped the
\* shell child, and none of its relay workers was still running when it
\* exited.
C15_ShellReaped ==
    (hPc \in {"zombie", "reaped"} /\ Ev("fork", 0, "shell") \in log)
    => /\ hReaped
       /\ \A w \in Workers : wPc[w] # "killed"

\* C16: when the server has collected the status of a session whose shell
\* image was never started (the shell child failed before or at execl, or was
\* never forked), that status is not 0.
C16_SpawnFailureReported ==
    (hPc = "reaped" /\ Ev("exec", 0, "shell") \notin log) => srvStatus # 0

\* C17: the shell image is started only by a child in which setsid and
\* every step of ps_init_slavepty succeeded, and a child that ends after one
\* of the steps of ps_init_slavepty failed ends with a non-zero status.
SlaveStepFailed == diag \cap Range(SlaveSteps) # {}
C17_AllOrNothing ==
    [][ /\ (cPc # "shell" /\ cPc' = "shell") =>
              cPc = "exec" /\ ~SlaveStepFailed
        /\ (cPc = "setup" /\ SlaveStepFailed') =>
              cPc' \in {"zombie", "gone"} /\ cStatus' # 0 ]_vars

\* C18: a worker that has a chunk to flush eventually leaves the write loop:
\* the whole chunk is written and it reads again, or it has stopped (write
\* error, cancellation, or the end of the process).
Flushing(w) == wPc[w] \in {"write", "wrote0"}
C18_FlushTerminates ==
    \A w \in Workers : Flushing(w) ~> ~Flushing(w)

\* C19: with the descriptor numbers of the standard launch, no worker's read,
\* write or close is issued on a descriptor number that has been closed in
\* the process (only a worker's close at end-of-stream closes one).
C19_NoClosedUse ==
    StdWiring => \A w \in Workers, call \in {"read", "write", "close"} :
                    Ev("closed fd", w, call) \notin log

\* C20: every pthread_cancel a worker has issued was given a handle that
\* pthread_create had stored and whose thread had not yet finished.
C20_CancelTargetsLive ==
    \A w \in Workers :
        Ev("cancel", w, "unset") \notin log /\ Ev("cancel", w, "dead") \notin log

====
